---- MODULE Spec2Model ----
(***************************************************************************)
(* AppOperation (src/src/AppOperation.ts): one object holding a base URL,  *)
(* a request registry, a static header set, an optional dynamic-header     *)
(* resolver and an optional toast handler.  getRequest dispatches on the   *)
(* registry entry's verb into sendRequest, which is suspended twice: while *)
(* awaiting fetch and while awaiting response.json().  The mutators are    *)
(* plain field writes and may run while a call is suspended.               *)
(*                                                                         *)
(* Strings that the code searches or concatenates (URLs, error messages)   *)
(* are sequences of string pieces; String.prototype.includes is contiguous *)
(* subsequence matching on them.                                           *)
(*                                                                         *)
(* sendRequest writes no field of the object, so calls in flight do not    *)
(* influence one another; the model follows one call at a time, from its   *)
(* start until its promise has settled and the caller has taken the        *)
(* result, together with every interleaving of the mutators.               *)
(***************************************************************************)
EXTENDS Integers, Sequences, FiniteSets

\* ------------------------------------------------------------------ bounds

\* mutator invocations in one behaviour
MaxMutations == 2

\* ------------------------------------------------------- JavaScript values

Undefined == [t |-> "undefined", n |-> 0, s |-> ""]
Null == [t |-> "null", n |-> 0, s |-> ""]
Num(n) == [t |-> "number", n |-> n, s |-> ""]
Str(s) == [t |-> "string", n |-> 0, s |-> s]

Digit(d) == <<"0", "1", "2", "3", "4", "5", "6", "7", "8", "9">>[d + 1]

\* decimal digits of a natural number, most significant first
RECURSIVE NatToString(_)
NatToString(n) == IF n < 10 THEN <<Digit(n)>>
                  ELSE NatToString(n \div 10) \o <<Digit(n % 10)>>

\* String(value), as done by `+` on a string and by a template literal
StringOf(v) == CASE v.t = "undefined" -> <<"undefined">>
                 [] v.t = "null" -> <<"null">>
                 [] v.t = "number" -> NatToString(v.n)
                 [] v.t = "string" -> IF v.s = "" THEN <<>> ELSE <<v.s>>

\* String.prototype.includes: pat occurs in str as a contiguous run
Includes(str, pat) ==
  \E i \in 0..(Len(str) - Len(pat)) :
    \A j \in 1..Len(pat) : str[i + j] = pat[j]

\* A parsed JSON body or a returned envelope.  `keys` holds the properties
\* present; an absent property holds its filler (0, <<>>).  tag is "object",
\* "null" or "primitive" (a JSON string, number or boolean).
Obj(keys, status, message, error, errors) ==
  [tag |-> "object", keys |-> keys, status |-> status, message |-> message,
   error |-> error, errors |-> errors]
JsonNull == [tag |-> "null", keys |-> {}, status |-> 0, message |-> <<>>,
             error |-> <<>>, errors |-> <<>>]
JsonPrimitive == [tag |-> "primitive", keys |-> {}, status |-> 0,
                  message |-> <<>>, error |-> <<>>, errors |-> <<>>]

\* ---------------------------------------------------------------- registry

\* the registry handed to the constructor: login and get_profile of api.ts,
\* and one entry for each of the other verbs
requests ==
  [login |-> [method |-> "POST", url |-> "auth/login"],
   get_profile |-> [method |-> "GET", url |-> "profile/"],
   put_profile |-> [method |-> "PUT", url |-> "profile/"],
   patch_profile |-> [method |-> "PATCH", url |-> "profile/"],
   delete_session |-> [method |-> "DELETE", url |-> "session/"]]

\* keys every object literal inherits from Object.prototype: the lookup
\* yields a function, whose url and method are undefined
InheritedKeys == {"toString"}
\* keys the lookup yields undefined for
MissingKeys == {"does-not-exist"}

RequestKeys == DOMAIN requests \cup InheritedKeys \cup MissingKeys

Methods == {"GET", "POST", "PUT", "PATCH", "DELETE"}

\* ------------------------------------------------------------ collaborators

\* dynamic-header resolvers; "undefined" is the unset field
Resolvers == {"tokenA", "tokenB", "resolverThrows"}
ResolverReturn(r) ==
  CASE r = "tokenA" -> <<<<"Authorization", "Bearer A">>, <<"Accept-Language", "en">>>>
    [] r = "tokenB" -> <<<<"Authorization", "Bearer B">>>>
    [] OTHER -> <<>>
ResolverThrows(r) == r = "resolverThrows"
ResolverError == <<"resolver", "failed">>

\* toast handlers; "undefined" is the unset field
Handlers == {"toastA", "toastB", "toastThrows"}
HandlerThrows(h) == h = "toastThrows"
HandlerError == <<"toast", "failed">>

HeaderKeys == {"Authorization", "System-Key"}
HeaderValues == {"key2"}

\* thrown by fetch: TypeError("Failed to fetch") in browsers,
\* "Network request failed" in React Native, an abort, an error without a
\* message, and messages that hold several or only part of the phrases
FetchErrors ==
  {<<"Failed", "to", "fetch">>,
   <<"TypeError:", "Network", "request", "failed">>,
   <<"Failed", "to", "fetch", "JSON">>,
   <<"Failed", "to", "connect">>,
   <<"The", "operation", "was", "aborted">>,
   <<>>}

\* thrown by response.json()
JsonErrors ==
  {<<"Unexpected", "token", "<", "in", "JSON", "at", "position", "0">>,
   <<"JSON", "Parse", "error:", "Network", "request", "failed">>,
   <<"Unexpected", "end", "of", "input">>}

\* message of the TypeError a property read of null or undefined raises;
\* the text is the engine's (V8, JavaScriptCore)
TypeErrorMessages ==
  {<<"Cannot", "read", "properties", "of", "undefined">>,
   <<"undefined", "is", "not", "an", "object">>}

\* bodies response.json() resolves to
Bodies ==
  {JsonNull,
   JsonPrimitive,
   Obj({"status", "message"}, 200, <<"Saved">>, <<>>, <<>>),
   Obj({"status"}, 200, <<>>, <<>>, <<>>),
   Obj({"status", "message"}, 201, <<"Created">>, <<>>, <<>>),
   Obj({"status", "message"}, 400, <<"Bad request">>, <<>>, <<>>),
   Obj({"status", "message", "errors"}, 422, <<"Invalid">>, <<>>,
       <<<<"email", <<<<"Email taken">>>>>>, <<"name", <<<<"Too short">>>>>>>>),
   Obj({"status", "message"}, 422, <<"Invalid">>, <<>>, <<>>),
   Obj({"status", "message", "errors"}, 422, <<"Invalid">>, <<>>, <<>>),
   Obj({"status", "message", "errors"}, 422, <<"Invalid">>, <<>>,
       <<<<"email", <<>>>>>>),
   Obj({"status", "message"}, 500, <<"Server error">>, <<>>, <<>>),
   Obj({"status", "message"}, 404, <<"Not found">>, <<>>, <<>>),
   Obj({"message"}, 0, <<"No status">>, <<>>, <<>>)}

\* ------------------------------------------------------------ call arguments

NoParams == [given |-> FALSE, entries |-> <<>>]
Params(entries) == [given |-> TRUE, entries |-> entries]

\* the arguments of getRequest other than request and suppressToast
ArgShapes ==
  {[params |-> NoParams, body |-> "undefined", id |-> Str(""),
    pathExtension |-> <<>>],
   [params |-> Params(<<<<"a", Num(1)>>, <<"b", Undefined>>, <<"c", Str("y")>>>>),
    body |-> "undefined", id |-> Num(7), pathExtension |-> <<"/x">>],
   [params |-> Params(<<<<"q", Null>>, <<"r", Undefined>>>>), body |-> "object",
    id |-> Str(""), pathExtension |-> <<>>],
   [params |-> Params(<<<<"q", Str("a&b=c")>>, <<"n", Num(10)>>>>),
    body |-> "FormData", id |-> Str("me"), pathExtension |-> <<>>]}

CallArgs ==
  {[request |-> r, suppressToast |-> s, params |-> a.params, body |-> a.body,
    id |-> a.id, pathExtension |-> a.pathExtension] :
     r \in RequestKeys, s \in BOOLEAN, a \in ArgShapes}

\* --------------------------------------------------------------- the object

VARIABLES
  baseUrl,            \* this.baseUrl
  staticHeaders,      \* this.staticHeaders: <<key, value>> in insertion order
  getDynamicHeaders,  \* this.getDynamicHeaders: a resolver or "undefined"
  showToast,          \* this.showToast: a handler or "undefined"
  pc,                 \* the call: "idle", "fetch", "json" or "done"
  args,               \* the call's getRequest arguments
  suppress,           \* the call's suppressToast inside sendRequest
  fetched,            \* the call's fetch invocations: [url, method, headers, body]
  resolverCalls,      \* the call's invocations of the dynamic-header resolver
  toasts,             \* the call's toast invocations: [handler, type, message]
  thrown,             \* <<message>> once fetch or response.json() has thrown
  parsed,             \* <<data>> once response.json() has resolved
  outcome,            \* the call's promise: pending, returned or rejected
  atStart,            \* the object's mutable fields when the call started
  nmut                \* mutator invocations

vars == <<baseUrl, staticHeaders, getDynamicHeaders, showToast, pc, args,
          suppress, fetched, resolverCalls, toasts, thrown, parsed, outcome,
          atStart, nmut>>

config == <<baseUrl, staticHeaders, getDynamicHeaders, showToast>>
call == <<pc, args, suppress, fetched, resolverCalls, toasts, thrown, parsed,
          outcome, atStart>>

Pending == [kind |-> "pending", value |-> JsonNull, error |-> <<>>]
Returned(v) == [kind |-> "returned", value |-> v, error |-> <<>>]
Rejected(e) == [kind |-> "rejected", value |-> JsonNull, error |-> e]

NoArgs == [request |-> "get_profile", suppressToast |-> FALSE,
           params |-> NoParams, body |-> "undefined", id |-> Str(""),
           pathExtension |-> <<>>]

Fields == [staticHeaders |-> staticHeaders,
           getDynamicHeaders |-> getDynamicHeaders, showToast |-> showToast]
NoFields == [staticHeaders |-> <<>>, getDynamicHeaders |-> "undefined",
             showToast |-> "undefined"]

\* the constructor: options.staticHeaders ?? {}, options.getDynamicHeaders,
\* options.showToast
Init ==
  /\ baseUrl \in {<<>>, <<"https://example.com/api/v1/">>}
  /\ staticHeaders \in {<<>>, <<<<"System-Key", "key1">>>>}
  /\ getDynamicHeaders \in {"undefined", "tokenA"}
  /\ showToast \in {"undefined", "toastA"}
  /\ pc = "idle"
  /\ args = NoArgs
  /\ suppress = FALSE
  /\ fetched = <<>>
  /\ resolverCalls = 0
  /\ toasts = <<>>
  /\ thrown = <<>>
  /\ parsed = <<>>
  /\ outcome = Pending
  /\ atStart = NoFields
  /\ nmut = 0

\* ---------------------------------------------------------------- mutators

HasKey(entries, key) == \E i \in 1..Len(entries) : entries[i][1] = key

\* obj[key] = value: an existing key keeps its place, a new key goes last
ObjectSet(entries, key, value) ==
  IF HasKey(entries, key)
  THEN [i \in 1..Len(entries) |->
          IF entries[i][1] = key THEN <<key, value>> ELSE entries[i]]
  ELSE Append(entries, <<key, value>>)

\* delete obj[key]
ObjectDelete(entries, key) == SelectSeq(entries, LAMBDA e : e[1] # key)

SetStaticHeader(key, value) ==
  /\ nmut < MaxMutations
  /\ staticHeaders' = ObjectSet(staticHeaders, key, value)
  /\ nmut' = nmut + 1
  /\ UNCHANGED <<baseUrl, getDynamicHeaders, showToast>>
  /\ UNCHANGED call

DeleteStaticHeader(key) ==
  /\ nmut < MaxMutations
  /\ staticHeaders' = ObjectDelete(staticHeaders, key)
  /\ nmut' = nmut + 1
  /\ UNCHANGED <<baseUrl, getDynamicHeaders, showToast>>
  /\ UNCHANGED call

SetDynamicHeadersResolver(resolver) ==
  /\ nmut < MaxMutations
  /\ getDynamicHeaders' = resolver
  /\ nmut' = nmut + 1
  /\ UNCHANGED <<baseUrl, staticHeaders, showToast>>
  /\ UNCHANGED call

SetToastHandler(handler) ==
  /\ nmut < MaxMutations
  /\ showToast' = handler
  /\ nmut' = nmut + 1
  /\ UNCHANGED <<baseUrl, staticHeaders, getDynamicHeaders>>
  /\ UNCHANGED call

\* ------------------------------------------------------------------ Headers

\* header names are matched case-insensitively
Lower(name) == CASE name = "Content-Type" -> "content-type"
                 [] name = "Authorization" -> "authorization"
                 [] name = "System-Key" -> "system-key"
                 [] name = "Accept-Language" -> "accept-language"
                 [] OTHER -> name

\* Headers.append: adds an entry; an entry of the same name stays
HeadersAppend(headers, name, value) == Append(headers, <<name, value>>)

\* Headers.delete: removes every entry of the name
HeadersDelete(headers, name) ==
  SelectSeq(headers, LAMBDA e : Lower(e[1]) # Lower(name))

\* Headers.get: the values of the name's entries in order of appending; the
\* request carries them joined by ", "
HeadersGet(headers, name) ==
  LET own == SelectSeq(headers, LAMBDA e : Lower(e[1]) = Lower(name))
  IN [i \in 1..Len(own) |-> own[i][2]]

\* Object.entries(obj).forEach(([key, value]) => headers.append(key, value))
RECURSIVE AppendEntries(_, _)
AppendEntries(headers, entries) ==
  IF entries = <<>> THEN headers
  ELSE AppendEntries(HeadersAppend(headers, entries[1][1], entries[1][2]),
                     Tail(entries))

\* this.getDynamicHeaders?.() ?? {}
DynamicHeaders(resolver) ==
  IF resolver = "undefined" THEN <<>> ELSE ResolverReturn(resolver)

BuildHeaders(static, dynamic, body) ==
  LET h1 == HeadersAppend(<<>>, "Content-Type", "application/json")
      h2 == AppendEntries(h1, static)
      h3 == AppendEntries(h2, dynamic)
  IN IF body = "FormData"
     THEN HeadersAppend(HeadersDelete(h3, "Content-Type"), "Content-Type",
                        "multipart/form-data")
     ELSE h3

\* options.body
SerializeBody(body) == CASE body = "undefined" -> "undefined"
                         [] body = "FormData" -> "FormData"
                         [] OTHER -> "JSON.stringify(body)"

\* ------------------------------------------------------------ query string

Nullish(v) == v.t = "undefined" \/ v.t = "null"

\* the forEach over the kept keys, from index i on (the code's i is i - 1)
RECURSIVE AppendParams(_, _, _)
AppendParams(str, kept, i) ==
  IF i > Len(kept) THEN str
  ELSE AppendParams(
         str \o <<IF i = 1 THEN "?" ELSE "&", kept[i][1], "=">>
             \o StringOf(kept[i][2]),
         kept, i + 1)

\* mutation: the filter drops undefined only
ParsedParamsKeepNull(params) ==
  IF ~params.given THEN <<>>
  ELSE AppendParams(<<>>,
                    SelectSeq(params.entries, LAMBDA e : e[2].t # "undefined"), 1)

ParsedParams(params) ==
  IF ~params.given THEN <<>>
  ELSE AppendParams(<<>>, SelectSeq(params.entries, LAMBDA e : ~Nullish(e[2])), 1)

\* ------------------------------------------------------------------ wrappers

\* the suppressToast, params and body each verb's wrapper hands to sendRequest
WrapperSuppress(method, suppressToast) ==
  IF method = "GET" THEN TRUE ELSE suppressToast

WrapperParams(method, params) ==
  IF method = "GET" THEN params ELSE NoParams

WrapperBody(method, body) ==
  IF method \in {"PATCH", "POST", "PUT"} THEN body ELSE "undefined"

\* this.requests[request].url + id + pathExtension
BasePath(url, id, pathExtension) == <<url>> \o StringOf(id) \o pathExtension

\* ------------------------------------------------------------------- toasts

NoToast == [throws |-> FALSE, toast |-> <<>>]
TypeErrorThrown == [throws |-> TRUE, toast |-> <<>>]
Toast(type, message) ==
  [throws |-> FALSE, toast |-> <<[type |-> type, message |-> message]>>]

\* mutation: the toast goes to the handler captured when the call started
EmitToCaptured(handler, log, toast) ==
  IF toast = <<>> \/ atStart.showToast = "undefined"
  THEN [log |-> log, error |-> <<>>]
  ELSE [log |-> Append(log, [handler |-> atStart.showToast,
                             type |-> toast[1].type,
                             message |-> toast[1].message]),
        error |-> IF HandlerThrows(atStart.showToast) THEN <<HandlerError>>
                  ELSE <<>>]

\* this.showToast?.(type, message) with `handler` the field's value at that
\* moment: the log with the invocation, and <<message>> of what it threw
Emit(handler, log, toast) ==
  IF toast = <<>> \/ handler = "undefined"
  THEN [log |-> log, error |-> <<>>]
  ELSE [log |-> Append(log, [handler |-> handler, type |-> toast[1].type,
                             message |-> toast[1].message]),
        error |-> IF HandlerThrows(handler) THEN <<HandlerError>> ELSE <<>>]

StatusIs(data, n) ==
  data.tag = "object" /\ "status" \in data.keys /\ data.status = n

\* data?.message, <<>> when it is absent or empty (falsy either way)
MessageOf(data) ==
  IF data.tag = "object" /\ "message" \in data.keys THEN data.message ELSE <<>>

\* the success toast
SuccessToast(data, suppressToast) ==
  IF suppressToast THEN NoToast
  ELSE IF data.tag = "null" THEN TypeErrorThrown
  ELSE IF (StatusIs(data, 200) \/ StatusIs(data, 201)) /\ MessageOf(data) # <<>>
       THEN Toast("success", MessageOf(data))
  ELSE NoToast

\* data.errors[Object.keys(data.errors)[0]][0]
FirstError(errors) ==
  IF Len(errors) = 0 THEN TypeErrorThrown
  ELSE IF Len(errors[1][2]) = 0 THEN NoToast
  ELSE Toast("error", errors[1][2][1])

\* the error toasts
ErrorToast(data, suppressToast) ==
  IF data.tag = "null" THEN TypeErrorThrown
  ELSE IF StatusIs(data, 422) /\ ~suppressToast
       THEN IF "errors" \in data.keys THEN FirstError(data.errors)
            ELSE IF MessageOf(data) # <<>> THEN Toast("error", MessageOf(data))
            ELSE NoToast
  ELSE IF StatusIs(data, 400) /\ ~suppressToast /\ MessageOf(data) # <<>>
       THEN Toast("error", MessageOf(data))
  ELSE IF StatusIs(data, 500) /\ ~suppressToast /\ MessageOf(data) # <<>>
       THEN Toast("error", MessageOf(data))
  ELSE NoToast

\* ---------------------------------------------------------------- the catch

ConfigErrorMessage ==
  <<"API base URL is not configured. Please set the baseUrl when constructing AppOperation.">>
ConfigErrorToast == <<"API configuration error">>
NetworkErrorMessage == <<"Network error. Please check your connection.">>
InvalidResponseMessage == <<"Invalid response from server">>
GenericErrorMessage == <<"Something went wrong">>

\* _error?.message || "Unknown error"
ErrorMessage(message) == IF message = <<>> THEN <<"Unknown error">> ELSE message

\* mutation: the "JSON" test ahead of the network phrases
UserMessageJsonFirst(errorMessage) ==
  IF Includes(errorMessage, <<"JSON">>) THEN InvalidResponseMessage
  ELSE IF \/ Includes(errorMessage, <<"Network", "request", "failed">>)
          \/ Includes(errorMessage, <<"Failed", "to", "fetch">>)
  THEN NetworkErrorMessage
  ELSE GenericErrorMessage

UserMessage(errorMessage) ==
  IF \/ Includes(errorMessage, <<"Network", "request", "failed">>)
     \/ Includes(errorMessage, <<"Failed", "to", "fetch">>)
  THEN NetworkErrorMessage
  ELSE IF Includes(errorMessage, <<"JSON">>) THEN InvalidResponseMessage
  ELSE GenericErrorMessage

\* mutation: the catch block's toast without its suppressToast guard
CatchToastUnguarded(suppressToast, userMessage) == Toast("error", userMessage)

\* the toast of the catch block
CatchToast(suppressToast, userMessage) ==
  IF suppressToast THEN NoToast ELSE Toast("error", userMessage)

\* the catch block for an error of the given message
Catch(message, suppressToast, handler, log) ==
  LET errorMessage == ErrorMessage(message)
      userMessage == UserMessage(errorMessage)
      e == Emit(handler, log, CatchToast(suppressToast, userMessage).toast)
  IN [log |-> e.log,
      outcome |-> IF e.error # <<>> THEN Rejected(e.error[1])
                  ELSE Returned(Obj({"status", "message", "error"}, 500,
                                    userMessage, errorMessage, <<>>))]

\* the try block from the resolution of response.json() on; typeError is the
\* message of the TypeError a failing property read raises
AfterJson(data, suppressToast, handler, log, typeError) ==
  LET a == SuccessToast(data, suppressToast)
      ea == Emit(handler, log, a.toast)
      b == ErrorToast(data, suppressToast)
      eb == Emit(handler, ea.log, b.toast)
  IN IF a.throws THEN Catch(typeError, suppressToast, handler, log)
     ELSE IF ea.error # <<>> THEN Catch(ea.error[1], suppressToast, handler, ea.log)
     ELSE IF b.throws THEN Catch(typeError, suppressToast, handler, ea.log)
     ELSE IF eb.error # <<>> THEN Catch(eb.error[1], suppressToast, handler, eb.log)
     ELSE [log |-> eb.log, outcome |-> Returned(data)]

\* the base URL check
MissingBaseUrl(suppressToast, handler) ==
  LET e == Emit(handler, <<>>,
                IF suppressToast THEN <<>>
                ELSE Toast("error", ConfigErrorToast).toast)
  IN [log |-> e.log,
      outcome |-> IF e.error # <<>> THEN Rejected(e.error[1])
                  ELSE Returned(Obj({"status", "message"}, 500,
                                    ConfigErrorMessage, <<>>, <<>>))]

\* ------------------------------------------------------------------ the call

\* sendRequest up to its first await
SendRequest(url, method, suppressToast, params, body) ==
  IF baseUrl = <<>>
  THEN LET r == MissingBaseUrl(suppressToast, showToast)
       IN [pc |-> "done", suppress |-> suppressToast, fetched |-> <<>>,
           resolverCalls |-> 0, log |-> r.log, outcome |-> r.outcome]
  ELSE IF getDynamicHeaders # "undefined" /\ ResolverThrows(getDynamicHeaders)
  THEN [pc |-> "done", suppress |-> suppressToast, fetched |-> <<>>,
        resolverCalls |-> 1, log |-> <<>>, outcome |-> Rejected(ResolverError)]
  ELSE [pc |-> "fetch", suppress |-> suppressToast,
        fetched |-> <<[url |-> baseUrl \o url \o ParsedParams(params),
                       method |-> method,
                       headers |-> BuildHeaders(staticHeaders,
                                                DynamicHeaders(getDynamicHeaders),
                                                body),
                       body |-> SerializeBody(body)]>>,
        resolverCalls |-> IF getDynamicHeaders = "undefined" THEN 0 ELSE 1,
        log |-> <<>>, outcome |-> Pending]

\* mutation: an unknown key falls back to a GET entry
LookupWithFallback(request) ==
  IF request \in DOMAIN requests
  THEN [kind |-> "entry", method |-> requests[request].method,
        url |-> requests[request].url]
  ELSE [kind |-> "entry", method |-> "GET", url |-> "undefined"]

\* this.requests[request]: an entry, a function inherited from
\* Object.prototype (url and method undefined), or undefined
Lookup(request) ==
  IF request \in DOMAIN requests
  THEN [kind |-> "entry", method |-> requests[request].method,
        url |-> requests[request].url]
  ELSE IF request \in InheritedKeys
  THEN [kind |-> "inherited", method |-> "undefined", url |-> "undefined"]
  ELSE [kind |-> "undefined", method |-> "undefined", url |-> "undefined"]

Stopped(error) ==
  [pc |-> "done", suppress |-> FALSE, fetched |-> <<>>, resolverCalls |-> 0,
   log |-> <<>>, outcome |-> Rejected(error)]

\* getRequest up to the first await of sendRequest; typeError is the message
\* of the TypeError a property read of undefined raises
Dispatch(a, typeError) ==
  LET entry == Lookup(a.request)
      basePath == BasePath(entry.url, a.id, a.pathExtension)
  IN IF entry.kind = "undefined" THEN Stopped(typeError)
     ELSE IF entry.method \in Methods
     THEN SendRequest(basePath, entry.method,
                      WrapperSuppress(entry.method, a.suppressToast),
                      WrapperParams(entry.method, a.params),
                      WrapperBody(entry.method, a.body))
     ELSE Stopped(<<"Unsupported", "method", entry.method>>)

GetRequest(a, typeError) ==
  /\ pc = "idle"
  /\ LET r == Dispatch(a, typeError)
     IN /\ pc' = r.pc
        /\ suppress' = r.suppress
        /\ fetched' = r.fetched
        /\ resolverCalls' = r.resolverCalls
        /\ toasts' = r.log
        /\ outcome' = r.outcome
  /\ args' = a
  /\ thrown' = <<>>
  /\ parsed' = <<>>
  /\ atStart' = Fields
  /\ UNCHANGED <<config, nmut>>

\* await fetch(fullUrl, options) rejects
FetchRejects(message) ==
  /\ pc = "fetch"
  /\ LET r == Catch(message, suppress, showToast, toasts)
     IN toasts' = r.log /\ outcome' = r.outcome
  /\ thrown' = <<message>>
  /\ pc' = "done"
  /\ UNCHANGED <<config, args, suppress, fetched, resolverCalls, parsed,
                 atStart, nmut>>

\* await fetch(fullUrl, options) resolves; response.json() is awaited
FetchResolves ==
  /\ pc = "fetch"
  /\ pc' = "json"
  /\ UNCHANGED <<config, args, suppress, fetched, resolverCalls, toasts, thrown,
                 parsed, outcome, atStart, nmut>>

\* await response.json() rejects
JsonRejects(message) ==
  /\ pc = "json"
  /\ LET r == Catch(message, suppress, showToast, toasts)
     IN toasts' = r.log /\ outcome' = r.outcome
  /\ thrown' = <<message>>
  /\ pc' = "done"
  /\ UNCHANGED <<config, args, suppress, fetched, resolverCalls, parsed,
                 atStart, nmut>>

\* await response.json() resolves to data; the rest of the try block runs
JsonResolves(data, typeError) ==
  /\ pc = "json"
  /\ LET r == AfterJson(data, suppress, showToast, toasts, typeError)
     IN toasts' = r.log /\ outcome' = r.outcome
  /\ parsed' = <<data>>
  /\ pc' = "done"
  /\ UNCHANGED <<config, args, suppress, fetched, resolverCalls, thrown,
                 atStart, nmut>>

\* the caller takes the settled promise's result; the call's frame is gone
Settle ==
  /\ pc = "done"
  /\ pc' = "idle"
  /\ args' = NoArgs
  /\ suppress' = FALSE
  /\ fetched' = <<>>
  /\ resolverCalls' = 0
  /\ toasts' = <<>>
  /\ thrown' = <<>>
  /\ parsed' = <<>>
  /\ outcome' = Pending
  /\ atStart' = NoFields
  /\ UNCHANGED <<config, nmut>>

Next ==
  \/ \E k \in HeaderKeys, v \in HeaderValues : SetStaticHeader(k, v)
  \/ \E k \in HeaderKeys : DeleteStaticHeader(k)
  \/ \E r \in Resolvers : SetDynamicHeadersResolver(r)
  \/ \E h \in Handlers : SetToastHandler(h)
  \/ \E a \in CallArgs, e \in TypeErrorMessages : GetRequest(a, e)
  \/ \E m \in FetchErrors : FetchRejects(m)
  \/ FetchResolves
  \/ \E m \in JsonErrors : JsonRejects(m)
  \/ \E d \in Bodies, e \in TypeErrorMessages : JsonResolves(d, e)
  \/ Settle

Spec == Init /\ [][Next]_vars

\* ------------------------------------------------------------------- claims

Registered == args.request \in DOMAIN requests
Method == requests[args.request].method
Done == pc = "done"

\* C1: a call that names a registered operation never rejects, whatever the
\* transport, the decode, the body, the resolver and the toast handler do.
C1_NeverRejects == (Done /\ Registered) => outcome.kind = "returned"

\* the entries of the call's outgoing headers other than Content-Type
SentHeaders == SelectSeq(fetched[1].headers, LAMBDA e : e[1] # "Content-Type")

\* what the resolver configured when the call started returns
DynamicAtStart ==
  IF atStart.getDynamicHeaders = "undefined" THEN <<>>
  ELSE ResolverReturn(atStart.getDynamicHeaders)

\* the call's outgoing headers are the static set and the resolver's result
\* as configured when the call started
HeadersFromStart ==
  fetched # <<>> => SentHeaders = atStart.staticHeaders \o DynamicAtStart

\* C2 as stated: a mutator invoked while a call is suspended changes neither
\* the call's outgoing headers nor the toast handler that receives the call's
\* notifications: both are the ones configured when the call started.
C2_InFlightKeepsStartConfig ==
  /\ HeadersFromStart
  /\ \A i \in 1..Len(toasts) : toasts[i].handler = atStart.showToast

\* C2 amended: the outgoing headers of a call are built from the static set
\* and the resolver configured when the call started and no mutator changes
\* them afterwards; each notification goes to the toast handler configured at
\* the moment it is emitted, so setToastHandler reaches a call in flight.
C2_HeadersAtStartToastAtEmit ==
  [][/\ HeadersFromStart'
     /\ (pc = "idle" /\ pc' # "idle") => atStart' = Fields
     /\ (pc \in {"fetch", "json"}) => (atStart' = atStart /\ fetched' = fetched)
     /\ \A i \in (Len(toasts) + 1)..Len(toasts') :
          toasts'[i].handler = showToast]_vars

\* a finished call that was sent with the static header of its start, while
\* the static set and the toast handler were replaced during its suspension:
\* its toast went to the new handler
C2_Witness ==
  /\ Done /\ fetched # <<>> /\ Len(toasts) = 1
  /\ atStart.showToast # "undefined"
  /\ toasts[1].handler # atStart.showToast
  /\ atStart.staticHeaders # <<>>
  /\ staticHeaders # atStart.staticHeaders
  /\ SentHeaders = atStart.staticHeaders \o DynamicAtStart

\* C3: a call made with suppressToast: true invokes the toast handler zero
\* times, for every verb and every outcome.
C3_SuppressedNoToast == args.suppressToast => toasts = <<>>

\* a suppressed POST whose parsed body carries status 422, with a handler set
C3_Witness ==
  /\ Done /\ args.suppressToast /\ Registered /\ Method = "POST"
  /\ atStart.showToast # "undefined"
  /\ parsed # <<>> /\ StatusIs(parsed[1], 422)

\* C4: whenever fetch and response.json() both succeed, the call returns
\* exactly the parsed body.
C4_ParsedBodyReturned ==
  (Done /\ parsed # <<>>) => outcome = Returned(parsed[1])

\* C5: a key of the resolver's result is sent with the dynamic value only,
\* also when the static set holds the key; a key of the static set alone is
\* sent with the static value.
C5_DynamicOverridesStatic ==
  fetched # <<>> =>
    /\ \A i \in 1..Len(DynamicAtStart) :
         HeadersGet(fetched[1].headers, DynamicAtStart[i][1])
           = <<DynamicAtStart[i][2]>>
    /\ \A i \in 1..Len(atStart.staticHeaders) :
         ~HasKey(DynamicAtStart, atStart.staticHeaders[i][1]) =>
           HeadersGet(fetched[1].headers, atStart.staticHeaders[i][1])
             = <<atStart.staticHeaders[i][2]>>

\* C6: with an empty base URL a call to a registered operation invokes fetch
\* zero times, returns {status: 500, message: <configuration error>} without
\* an error field, and notifies the handler exactly when the caller did not
\* pass suppressToast: true.
C6_MissingBaseUrl ==
  (Done /\ Registered /\ baseUrl = <<>>) =>
    /\ fetched = <<>>
    /\ outcome = Returned(Obj({"status", "message"}, 500, ConfigErrorMessage,
                              <<>>, <<>>))
    /\ atStart.showToast # "undefined" =>
         (Len(toasts) = 1 <=> ~args.suppressToast)

\* C7: a call whose request key is not in the registry fails before any side
\* effect: the promise rejects, the resolver, fetch and the toast handler are
\* not invoked, and no field of the object changes.
C7_UnknownRequestFailsFirst ==
  [][(pc = "idle" /\ pc' # "idle" /\ args'.request \notin DOMAIN requests) =>
       /\ pc' = "done"
       /\ outcome'.kind = "rejected"
       /\ resolverCalls' = 0
       /\ fetched' = <<>>
       /\ toasts' = <<>>
       /\ config' = config]_vars

\* a rejected call to a key that is not registered, on an object with a base
\* URL, a resolver and a toast handler
C7_Witness ==
  /\ Done /\ args.request \in MissingKeys /\ outcome.kind = "rejected"
  /\ baseUrl # <<>>
  /\ atStart.getDynamicHeaders # "undefined"
  /\ atStart.showToast # "undefined"
  /\ ~args.suppressToast

\* an outcome the toast rules notify for
Qualifying ==
  \/ thrown # <<>>
  \/ /\ parsed # <<>>
     /\ MessageOf(parsed[1]) # <<>>
     /\ \/ StatusIs(parsed[1], 200)
        \/ StatusIs(parsed[1], 201)
        \/ StatusIs(parsed[1], 400)
        \/ StatusIs(parsed[1], 500)
        \/ StatusIs(parsed[1], 422) /\ "errors" \notin parsed[1].keys

\* C8: a call to a GET operation that does not pass suppressToast invokes the
\* toast handler for a qualifying outcome.
C8_GetToasts ==
  (/\ Done /\ Registered /\ Method = "GET" /\ ~args.suppressToast
   /\ atStart.showToast # "undefined" /\ Qualifying)
  => toasts # <<>>

NetworkPhrase(message) ==
  \/ Includes(message, <<"Failed", "to", "fetch">>)
  \/ Includes(message, <<"Network", "request", "failed">>)
JsonPhrase(message) == Includes(message, <<"JSON">>)

\* C9 as stated: when fetch or response.json() throws, the returned envelope
\* is {status: 500, message, error: <thrown message>}, with the network text
\* if the thrown message holds a network phrase, the invalid-response text if
\* it holds "JSON", and the generic text otherwise.
C9_ClassifiedBySubstring ==
  (Done /\ thrown # <<>> /\ outcome.kind = "returned") =>
    /\ outcome.value.tag = "object"
    /\ outcome.value.keys = {"status", "message", "error"}
    /\ outcome.value.status = 500
    /\ thrown[1] # <<>> => outcome.value.error = thrown[1]
    /\ NetworkPhrase(thrown[1]) => outcome.value.message = NetworkErrorMessage
    /\ JsonPhrase(thrown[1]) => outcome.value.message = InvalidResponseMessage
    /\ (~NetworkPhrase(thrown[1]) /\ ~JsonPhrase(thrown[1])) =>
         outcome.value.message = GenericErrorMessage

\* C9 amended: the network phrases take precedence over "JSON", and the error
\* field is "Unknown error" when the thrown error has no message; the call
\* returns this envelope unless the catch block's own toast throws, and then
\* it rejects with what the handler threw.
C9_NetworkPhraseFirst ==
  (Done /\ thrown # <<>>) =>
    LET message == IF NetworkPhrase(thrown[1]) THEN NetworkErrorMessage
                   ELSE IF JsonPhrase(thrown[1]) THEN InvalidResponseMessage
                   ELSE GenericErrorMessage
        error == IF thrown[1] = <<>> THEN <<"Unknown error">> ELSE thrown[1]
    IN \/ outcome = Returned(Obj({"status", "message", "error"}, 500, message,
                                 error, <<>>))
       \/ /\ outcome = Rejected(HandlerError)
          /\ ~suppress
          /\ toasts # <<>>
          /\ HandlerThrows(toasts[Len(toasts)].handler)
          /\ toasts[Len(toasts)].message = message

\* response.json() threw a message that holds a network phrase and "JSON"
C9_Witness ==
  /\ Done /\ thrown # <<>> /\ outcome.kind = "returned"
  /\ NetworkPhrase(thrown[1]) /\ JsonPhrase(thrown[1])
  /\ outcome.value.message = NetworkErrorMessage

\* "k=v" for each param that is neither undefined nor null, in order, the
\* first led by "?" and the others by "&"
RECURSIVE Pairs(_, _)
Pairs(entries, first) ==
  IF entries = <<>> THEN <<>>
  ELSE IF Nullish(entries[1][2]) THEN Pairs(Tail(entries), first)
  ELSE <<IF first THEN "?" ELSE "&", entries[1][1], "=">>
         \o StringOf(entries[1][2]) \o Pairs(Tail(entries), FALSE)

CallPath == <<requests[args.request].url>> \o StringOf(args.id)
              \o args.pathExtension

\* C10 as stated: for every call that supplies params, whatever the verb, the
\* URL passed to fetch is baseUrl + path + the query string of the params.
C10_QueryForEveryVerb ==
  (fetched # <<>> /\ args.params.given) =>
    fetched[1].url = baseUrl \o CallPath \o Pairs(args.params.entries, TRUE)

\* C10 amended: for a GET operation the URL is baseUrl + path + the query
\* string of the params; for the other verbs params is not used and the URL
\* is baseUrl + path.
C10_QueryForGetOnly ==
  fetched # <<>> =>
    fetched[1].url =
      baseUrl \o CallPath
        \o (IF Method = "GET" /\ args.params.given
            THEN Pairs(args.params.entries, TRUE) ELSE <<>>)

\* a GET call whose params hold a dropped value and two kept ones
C10_Witness ==
  /\ fetched # <<>> /\ Method = "GET" /\ args.params.given
  /\ \E i \in 1..Len(args.params.entries) : Nullish(args.params.entries[i][2])
  /\ Includes(fetched[1].url, <<"?">>)
  /\ Includes(fetched[1].url, <<"&">>)

\* C11: every call invokes the toast handler at most once in total; the
\* success toast, the error toasts, the configuration-error toast and the
\* catch block's toast exclude one another within one call.
C11_AtMostOneToast == Len(toasts) <= 1

====
